---- MODULE Spec2Model ----
(***************************************************************************)
(* Model of src/any_instock_us.py: the Steam Deck refurbished in-stock     *)
(* monitor.  Text is a sequence of one-character strings.  A parsed page   *)
(* is a chain of nodes: nodes[1] is the BeautifulSoup object, nodes[i+1]   *)
(* the element child of nodes[i]; each node carries the string that        *)
(* precedes its child, and its aria-label and title attributes.            *)
(***************************************************************************)
EXTENDS Integers, Sequences, FiniteSets, TLC

VARIABLES
    \* ---- main(): one process invocation after another
    env,          \* value of DISCORD_WEBHOOK in the environment of this run
    file,         \* the state file on disk
    file0,        \* the state file as it was when this run started
    runs,         \* number of runs started so far
    pc,           \* position of main()
    state,        \* main()'s local `state`
    last_hash,    \* main()'s local `last_hash`
    soup,         \* main()'s local `soup`
    page_hash,    \* main()'s local `page_hash`
    trace,        \* the I/O calls of this run, in order
    logs,         \* the log records of this run
    exit,         \* how main() ended: "running", "returned", "raised"
    branch,       \* the branch this run took
    outcome,      \* what the fetch, the webhook post and the state write did
    prev,         \* summary of the previous run
    \* ---- detect_in_stock(soup) on one parsed page
    doc,          \* the parsed page
    todo,         \* candidates detect_in_stock has not visited yet
    visited,      \* candidates visited, with has_positive_in_context's answer
    verdict,      \* "pending", "true", "false"
    \* ---- norm() and the page fingerprint on two texts
    x,            \* a text
    y,            \* a text obtained from x by whitespace and case edits
    edits,        \* number of edits applied to y
    sigma,        \* whether a Greek sigma of y changed case
    applied,      \* whether norm and the fingerprint have been computed
    nx,           \* norm(x) once computed
    fx,           \* fingerprint of x once computed
    fy            \* fingerprint of y once computed

mainVars == <<env, file, file0, runs, pc, state, last_hash, soup, page_hash,
              trace, logs, exit, branch, outcome, prev>>
detectVars == <<doc, todo, visited, verdict>>
normVars == <<x, y, edits, sigma, applied, nx, fx, fy>>
vars == <<mainVars, detectVars, normVars>>

(***************************************************************************)
(* Characters                                                              *)
(***************************************************************************)
UPPER == <<"A","B","C","D","E","F","G","H","I","J","K","L","M",
           "N","O","P","Q","R","S","T","U","V","W","X","Y","Z">>
LOWER == <<"a","b","c","d","e","f","g","h","i","j","k","l","m",
           "n","o","p","q","r","s","t","u","v","w","x","y","z">>
DIGITS == <<"0","1","2","3","4","5","6","7","8","9">>
HEXDIGITS == DIGITS \o <<"a","b","c","d","e","f">>
WHITESPACE == <<" ", "\t", "\n", "\r">>
PUNCT == <<"-", "_", ".", "!">>
\* the Greek capital sigma U+03A3, small sigma U+03C3 and final small sigma U+03C2,
\* each one character, written here by name
CAP_SIGMA == "SIGMA"
SMALL_SIGMA == "sigma"
FINAL_SIGMA == "final sigma"
GREEK == <<CAP_SIGMA, SMALL_SIGMA, FINAL_SIGMA>>
CHARS == WHITESPACE \o PUNCT \o DIGITS \o UPPER \o LOWER \o GREEK

Range(s) == {s[i] : i \in DOMAIN s}
LowerMap == [c \in Range(UPPER) |-> LOWER[CHOOSE i \in DOMAIN UPPER : UPPER[i] = c]]
OrdMap == [c \in Range(CHARS) |-> CHOOSE i \in DOMAIN CHARS : CHARS[i] = c]

UpperChars == Range(UPPER)
SpaceChars == Range(WHITESPACE)
WordChars == Range(UPPER) \cup Range(LOWER) \cup Range(DIGITS) \cup Range(GREEK) \cup {"_"}
\* the characters with the Unicode properties Cased and Case_Ignorable
CasedChars == Range(UPPER) \cup Range(LOWER) \cup Range(GREEK)
CaseIgnorableChars == {"."}

\* str.lower() on one character
LowerChar(c) == IF c \in UpperChars THEN LowerMap[c] ELSE c
\* what \s and str.strip() take for whitespace
IsSpace(c) == c \in SpaceChars
\* what \w takes for a word character (\b is a change of this)
IsWord(c) == c \in WordChars

(***************************************************************************)
(* norm(s) == re.sub(r"\s+", " ", s or "").strip().lower()                 *)
(***************************************************************************)
\* re.sub(r"\s+", " ", s): every maximal run of whitespace becomes one " "
SubSpaces(s) ==
    LET RunStart(i) == ~(IsSpace(s[i]) /\ i > 1 /\ IsSpace(s[i - 1]))
        kept == SelectSeq([i \in 1..Len(s) |-> i], RunStart)
    IN  [k \in 1..Len(kept) |-> IF IsSpace(s[kept[k]]) THEN " " ELSE s[kept[k]]]

RECURSIVE FirstInk(_, _)
FirstInk(s, i) == IF i <= Len(s) /\ IsSpace(s[i]) THEN FirstInk(s, i + 1) ELSE i
RECURSIVE LastInk(_, _)
LastInk(s, i) == IF i >= 1 /\ IsSpace(s[i]) THEN LastInk(s, i - 1) ELSE i
\* str.strip(): drop leading and trailing whitespace
Strip(s) == SubSeq(s, FirstInk(s, 1), LastInk(s, Len(s)))

\* str.lower() gives a capital sigma the final form when a cased character
\* precedes it and none follows it, case-ignorable characters skipped
RECURSIVE CasedBefore(_, _)
CasedBefore(s, j) ==
    IF j < 1 THEN FALSE
    ELSE IF s[j] \in CaseIgnorableChars THEN CasedBefore(s, j - 1)
    ELSE s[j] \in CasedChars
RECURSIVE CasedAfter(_, _)
CasedAfter(s, j) ==
    IF j > Len(s) THEN FALSE
    ELSE IF s[j] \in CaseIgnorableChars THEN CasedAfter(s, j + 1)
    ELSE s[j] \in CasedChars
LowerSigma(s, i) ==
    IF CasedBefore(s, i - 1) /\ ~CasedAfter(s, i + 1) THEN FINAL_SIGMA ELSE SMALL_SIGMA
\* str.lower()
Lower(s) ==
    [i \in 1..Len(s) |-> IF s[i] = CAP_SIGMA THEN LowerSigma(s, i) ELSE LowerChar(s[i])]

NormNoStrip(s) == Lower(SubSpaces(s))
norm(s) == Lower(Strip(SubSpaces(s)))

\* an argument of norm: a str or None
None == [isNone |-> TRUE, chars |-> <<>>]
Str(s) == [isNone |-> FALSE, chars |-> s]
\* `s or ""`
OrEmpty(a) == IF a.isNone \/ a.chars = <<>> THEN <<>> ELSE a.chars
normArg(a) == norm(OrEmpty(a))

(***************************************************************************)
(* hashlib.sha256(t.encode("utf-8")).hexdigest()[:16]                      *)
(* SHA-256 is modelled by a polynomial digest of the characters, six       *)
(* 16-bit lanes of four hex digits each, of which [:16] keeps the first    *)
(* four: a deterministic function of the text that is sensitive to every   *)
(* character and is not injective.                                         *)
(***************************************************************************)
HashLen == 16
LaneMult == <<31, 37, 41, 43>>
RECURSIVE Lane(_, _, _, _)
Lane(s, i, m, h) ==
    IF i > Len(s) THEN h
    ELSE Lane(s, i + 1, m, ((h * m) + OrdMap[s[i]]) % 65536)
Hex4(n) == << HEXDIGITS[((n \div 4096) % 16) + 1], HEXDIGITS[((n \div 256) % 16) + 1],
              HEXDIGITS[((n \div 16) % 16) + 1], HEXDIGITS[(n % 16) + 1] >>
HexDigest(s) ==
    Hex4(Lane(s, 1, LaneMult[1], 7)) \o Hex4(Lane(s, 1, LaneMult[2], 7)) \o
    Hex4(Lane(s, 1, LaneMult[3], 7)) \o Hex4(Lane(s, 1, LaneMult[4], 7)) \o
    Hex4(Lane(s, 1, LaneMult[1], 11)) \o Hex4(Lane(s, 1, LaneMult[2], 11))
Sha256Hex16(s) == SubSeq(HexDigest(s), 1, HashLen)

\* main() line 129, on the text soup.get_text(" ", strip=True) returned
Fingerprint(text) == Sha256Hex16(norm(text))

(***************************************************************************)
(* The parsed page                                                         *)
(***************************************************************************)
\* " ".join(parts): empty parts are joined like any other
RECURSIVE JoinFrom(_, _)
JoinFrom(parts, i) ==
    IF i > Len(parts) THEN <<>>
    ELSE IF i = Len(parts) THEN parts[i]
    ELSE parts[i] \o <<" ">> \o JoinFrom(parts, i + 1)
Join(parts) == JoinFrom(parts, 1)

NonEmpty(t) == t # <<>>
\* node.parent: the BeautifulSoup object nodes[1] has parent None (0)
Parent(n) == n - 1
\* node.get_text(" ", strip=True): the strings of the node and its descendants in
\* document order, each stripped, the empty ones dropped, joined by " "
GetText(d, n) ==
    Join(SelectSeq([i \in 1..(Len(d) - n + 1) |-> Strip(d[n + i - 1].text)], NonEmpty))
\* soup.select("a, button"), in document order
SelectSet(d) == {n \in 2..Len(d) : d[n].tag \in {"a", "button"}}
RECURSIVE Ascending(_, _)
Ascending(S, from) ==
    IF \A n \in S : n < from THEN <<>>
    ELSE LET n == CHOOSE m \in S : m >= from /\ \A k \in S : k >= from => m <= k
         IN  <<n>> \o Ascending(S, n + 1)
Select(d) == Ascending(SelectSet(d), 1)

(***************************************************************************)
(* The phrase lists: each pattern is \b w1 \s* w2 \s* ... wk \b, searched  *)
(* with re.I.                                                              *)
(***************************************************************************)
POSITIVE_STRICT == <<
    << <<"a","d","d">>, <<"t","o">>, <<"c","a","r","t">> >>,
    << <<"b","u","y">>, <<"n","o","w">> >>,
    << <<"i","n">>, <<"s","t","o","c","k">> >> >>
NEGATIVE_HINTS == <<
    << <<"o","u","t">>, <<"o","f">>, <<"s","t","o","c","k">> >>,
    << <<"u","n","a","v","a","i","l","a","b","l","e">> >>,
    << <<"s","o","l","d">>, <<"o","u","t">> >>,
    << <<"n","o","t","i","f","y">>, <<"m","e">> >> >>

\* the literal w at position i of s, letters compared without case
LiteralAt(s, i, w) ==
    /\ i + Len(w) - 1 <= Len(s)
    /\ \A k \in 1..Len(w) : s[i + k - 1] = w[k] \/ LowerChar(s[i + k - 1]) = w[k]
\* \b between positions i-1 and i of s
Boundary(s, i) ==
    (i > 1 /\ IsWord(s[i - 1])) # (i <= Len(s) /\ IsWord(s[i]))
\* \s*: the first position at or after i that holds no whitespace
RECURSIVE SkipSpaces(_, _)
SkipSpaces(s, i) == IF i <= Len(s) /\ IsSpace(s[i]) THEN SkipSpaces(s, i + 1) ELSE i
RECURSIVE MatchWords(_, _, _, _)
MatchWords(s, i, pat, k) ==
    /\ LiteralAt(s, i, pat[k])
    /\ IF k = Len(pat) THEN Boundary(s, i + Len(pat[k]))
       ELSE MatchWords(s, SkipSpaces(s, i + Len(pat[k])), pat, k + 1)
\* re.search(p, s, flags=re.I)
Search(pat, s) ==
    LET c == pat[1][1]
    IN  \E i \in 1..Len(s) :
            /\ s[i] = c \/ LowerChar(s[i]) = c
            /\ MatchWords(s, i, pat, 1)
            /\ Boundary(s, i)
\* any(re.search(p, s, flags=re.I) for p in patterns)
AnySearch(patterns, s) == \E j \in DOMAIN patterns : Search(patterns[j], s)

\* `sub in t`
Contains(t, sub) ==
    \E i \in 0..(Len(t) - Len(sub)) : \A k \in 1..Len(sub) : t[i + k] = sub[k]

STEAM_DECK == <<"s","t","e","a","m"," ","d","e","c","k">>
REFURB == <<"r","e","f","u","r","b">>
REFURBISHED == REFURB \o <<"i","s","h","e","d">>
CERTIFIED_REFURBISHED == <<"c","e","r","t","i","f","i","e","d"," ">> \o REFURBISHED

ContextEitherTerm(text) ==
    LET t == norm(text)
    IN  Contains(t, STEAM_DECK) \/ Contains(t, REFURB)
context_looks_like_refurb(text) ==
    LET t == norm(text)
    IN  /\ Contains(t, STEAM_DECK)
        /\ \/ Contains(t, REFURB)
           \/ Contains(t, CERTIFIED_REFURBISHED)
           \/ Contains(t, REFURBISHED)

(***************************************************************************)
(* has_positive_in_context(node) and detect_in_stock(soup)                 *)
(***************************************************************************)
ClimbLimit == 4

\* lines 54-59: the node's text and its aria-label and title, normalised and joined
Combined(d, n) ==
    Join(<<norm(GetText(d, n))>>
         \o (IF d[n].aria # <<>> THEN <<norm(d[n].aria)>> ELSE <<>>)
         \o (IF d[n].title # <<>> THEN <<norm(d[n].title)>> ELSE <<>>))

\* lines 69-78: the nodes whose text the climb appends to ctx_chunks, the node
\* itself first; brk is the ancestor whose get_text raises (0: none)
RECURSIVE Climb(_, _, _, _, _)
Climb(parent, steps, limit, brk, chunks) ==
    IF parent # 0 /\ steps < limit
    THEN Climb(Parent(parent), steps + 1, limit, brk,
               IF parent = brk THEN chunks ELSE Append(chunks, parent))
    ELSE chunks
ClimbLevelsOneMore(n, brk) == Climb(n, 0, ClimbLimit + 1, brk, <<>>)
ClimbLevels(n, brk) == Climb(n, 0, ClimbLimit, brk, <<>>)

\* line 79: ctx = " ".join(ctx_chunks)
ContextText(d, levels) == Join([i \in DOMAIN levels |-> GetText(d, levels[i])])

\* has_positive_in_context(node): the answer, the check that gave it, and the
\* nodes whose text went into ctx
HasPositiveNoVeto(d, n, brk) ==
    LET combined == Combined(d, n)
    IN  IF ~AnySearch(POSITIVE_STRICT, combined)
        THEN [result |-> FALSE, stage |-> "positive", levels |-> <<>>]
        ELSE LET levels == ClimbLevels(n, brk)
             IN  [result |-> context_looks_like_refurb(ContextText(d, levels)),
                  stage |-> "gate", levels |-> levels]
has_positive_in_context(d, n, brk) ==
    LET combined == Combined(d, n)
    IN  IF ~AnySearch(POSITIVE_STRICT, combined)
        THEN [result |-> FALSE, stage |-> "positive", levels |-> <<>>]
        ELSE IF AnySearch(NEGATIVE_HINTS, combined)
        THEN [result |-> FALSE, stage |-> "negative", levels |-> <<>>]
        ELSE LET levels == ClimbLevels(n, brk)
             IN  [result |-> context_looks_like_refurb(ContextText(d, levels)),
                  stage |-> "gate", levels |-> levels]

\* detect_in_stock(soup), on a page none of whose text lookups raises
detect_in_stock(d) == \E n \in SelectSet(d) : has_positive_in_context(d, n, 0).result

(***************************************************************************)
(* Values of the variables of the parts a specification leaves idle        *)
(***************************************************************************)
MainIdle ==
    /\ env = None /\ file = [kind |-> "missing"] /\ file0 = [kind |-> "missing"]
    /\ runs = 0 /\ pc = "idle" /\ state = [t |-> "unset"] /\ last_hash = None
    /\ soup = <<>> /\ page_hash = <<>> /\ trace = <<>> /\ logs = {}
    /\ exit = "idle" /\ branch = "idle"
    /\ outcome = [fetch |-> "none", post |-> "none", save |-> "none"]
    /\ prev = [branch |-> "idle"]
DetectIdle ==
    /\ doc = <<>> /\ todo = <<>> /\ visited = <<>> /\ verdict = "idle"
NormIdle ==
    /\ x = None /\ y = <<>> /\ edits = 0 /\ sigma = FALSE /\ applied = FALSE
    /\ nx = <<>> /\ fx = <<>> /\ fy = <<>>

(***************************************************************************)
(* Specification SpecDetect: detect_in_stock on the pages of a bounded     *)
(* family.  A page is a chain of Depth elements under the BeautifulSoup    *)
(* object; the innermost element is a button or a div, at most one   *)
(* of the outer elements is an a; each of four text fragments sits in the  *)
(* text of one node, in an attribute of the innermost element, or nowhere. *)
(***************************************************************************)
Depth == 4
NodeCount == Depth + 1

F_BUY == <<"B","u","y"," ","N","o","w">>
F_SOLD == <<"S","o","l","d"," ","O","u","t">>
F_STEAM == <<"S","t","e","a","m"," ","\n","D","e","c","k">>
F_REFURB == <<"R","e","f","u","r","b","i","s","h","e","d">>

\* slot 0: nowhere; slot n in 1..NodeCount: the text of node n;
\* NodeCount + 1, NodeCount + 2: aria-label and title of the innermost element
TextSlots == 0..NodeCount
AriaSlot == NodeCount + 1
TitleSlot == NodeCount + 2
Placements ==
    [buy : TextSlots \cup {AriaSlot}, sold : TextSlots \cup {TitleSlot},
     steam : TextSlots \cup {AriaSlot}, refurb : TextSlots]
SlotText(pl, slot) ==
    Join((IF pl.steam = slot THEN <<F_STEAM>> ELSE <<>>)
         \o (IF pl.refurb = slot THEN <<F_REFURB>> ELSE <<>>)
         \o (IF pl.buy = slot THEN <<F_BUY>> ELSE <<>>)
         \o (IF pl.sold = slot THEN <<F_SOLD>> ELSE <<>>))
TagChoices ==
    {tg \in [1..NodeCount -> {"[document]", "a", "button", "div"}] :
        /\ tg[1] = "[document]"
        /\ tg[NodeCount] \in {"button", "div"}
        /\ \A i \in 2..(NodeCount - 1) : tg[i] \in {"a", "div"}
        /\ \A i, j \in 2..(NodeCount - 1) : tg[i] = "a" /\ tg[j] = "a" => i = j}
MkDoc(tg, pl) ==
    [n \in 1..Len(tg) |->
        [tag |-> tg[n], text |-> SlotText(pl, n),
         aria |-> IF n = Len(tg) THEN SlotText(pl, Len(tg) + 1) ELSE <<>>,
         title |-> IF n = Len(tg) THEN SlotText(pl, Len(tg) + 2) ELSE <<>>]]

DetectInit ==
    /\ \E tg \in TagChoices, pl \in Placements : doc = MkDoc(tg, pl)
    /\ todo = Select(doc)
    /\ visited = <<>>
    /\ verdict = "pending"
    /\ MainIdle /\ NormIdle

\* the ancestors of n the climb looks up
Looked(n) == {a \in 1..(n - 1) : n - a < ClimbLimit}
\* lines 85-87: one iteration of the loop; brk is the ancestor of the node whose
\* text lookup raises inside the climb's try block during this call (0: none)
DetectVisit ==
    /\ verdict = "pending" /\ todo # <<>>
    /\ LET n == Head(todo)
           r0 == has_positive_in_context(doc, n, 0)
       IN  \E brk \in IF r0.stage = "gate" THEN {0} \cup Looked(n) ELSE {0} :
             LET r == IF brk = 0 THEN r0 ELSE has_positive_in_context(doc, n, brk)
             IN  /\ visited' = Append(visited,
                                      [node |-> n, brk |-> brk, result |-> r.result,
                                       stage |-> r.stage, levels |-> r.levels])
                 /\ IF r.result
                    THEN verdict' = "true" /\ todo' = todo
                    ELSE verdict' = verdict /\ todo' = Tail(todo)
    /\ UNCHANGED <<doc, mainVars, normVars>>
\* line 88: the loop is over
DetectReturnFalse ==
    /\ verdict = "pending" /\ todo = <<>>
    /\ verdict' = "false"
    /\ UNCHANGED <<doc, todo, visited, mainVars, normVars>>

DetectNext == DetectVisit \/ DetectReturnFalse
SpecDetect == DetectInit /\ [][DetectNext]_vars

(***************************************************************************)
(* Properties of the strict classifier, checked under SpecDetect           *)
(***************************************************************************)
Entries == {visited[i] : i \in DOMAIN visited}
Min(a, b) == IF a < b THEN a ELSE b
\* node n and its k nearest ancestors, nearest first, without node brk
Nearest(n, k, brk) ==
    LET Kept(m) == m # brk
    IN  SelectSeq([i \in 1..(k + 1) |-> n - i + 1], Kept)
HasPositive(t) == AnySearch(POSITIVE_STRICT, t)
HasNegative(t) == AnySearch(NEGATIVE_HINTS, t)
HasTopic(t) == Contains(norm(t), STEAM_DECK) /\ Contains(norm(t), REFURB)
\* the text the topical gate is given for entry e
Window(e) == ContextText(doc, Nearest(e.node, Min(3, e.node - 1), e.brk))
\* the node's own text, its attribute values and the ancestor text window
WholeContext(e) == Join(<<Combined(doc, e.node), norm(Window(e))>>)

\* C7 (as amended): a candidate node whose own text plus aria-label/title values
\* contain a NEGATIVE_HINTS phrase yields false, whatever else they or the
\* ancestor text window contain.
C7_NegativeVetoOwnText ==
    \A e \in Entries : HasNegative(Combined(doc, e.node)) => ~e.result
C7_Witness ==
    \E e \in Entries :
        /\ HasPositive(Combined(doc, e.node)) /\ HasNegative(Combined(doc, e.node))
        /\ HasTopic(Window(e))
        /\ ~e.result
\* C7 (as claimed): a candidate node whose context, the ancestor text window
\* included, contains both a POSITIVE_STRICT and a NEGATIVE_HINTS phrase yields false.
C7_NegativeVetoWholeContext ==
    \A e \in Entries :
        HasPositive(WholeContext(e)) /\ HasNegative(WholeContext(e)) => ~e.result

\* C8: detect_in_stock returns true only if some candidate has a POSITIVE_STRICT
\* phrase and no NEGATIVE_HINTS phrase in its own text plus attributes and a
\* context window holding both "steam deck" and a refurbished qualifier; a node
\* with a positive and no negative phrase whose window lacks either term yields
\* false; a page with no qualifying node gets a negative verdict.
Qualifies(n, brk) ==
    LET e == [node |-> n, brk |-> brk]
    IN  /\ HasPositive(Combined(doc, n)) /\ ~HasNegative(Combined(doc, n))
        /\ HasTopic(Window(e))
C8_TopicalGate ==
    /\ verdict = "true" => \E e \in Entries : e.result /\ Qualifies(e.node, e.brk)
    /\ \A e \in Entries :
          /\ HasPositive(Combined(doc, e.node)) /\ ~HasNegative(Combined(doc, e.node))
          /\ ~HasTopic(Window(e))
          => ~e.result
    /\ verdict # "pending" /\ (\A n \in SelectSet(doc) : ~Qualifies(n, 0))
          => verdict = "false"
C8_Witness ==
    /\ verdict = "true" /\ Len(visited) = 2
    /\ visited[1].stage = "negative" /\ visited[2].stage = "gate"
C8_WitnessGateRejects ==
    \E e \in Entries :
        /\ e.stage = "gate" /\ ~e.result
        /\ Contains(norm(Window(e)), STEAM_DECK) /\ ~Contains(norm(Window(e)), REFURB)

\* C10 (as amended): the text given to the topical gate is the node's own text
\* and the text of exactly its min(3, d) nearest ancestors, d the number of its
\* ancestors; text found only in the 3rd ancestor is in it, text found only in
\* the 4th ancestor or beyond is not; a lookup that fails on one level leaves
\* out that level only.
OwnTextIn(e, a) == Contains(ContextText(doc, e.levels), Strip(doc[a].text))
C10_ContextExtent3 ==
    \A e \in Entries : e.stage = "gate" =>
        /\ e.levels = Nearest(e.node, Min(3, e.node - 1), e.brk)
        /\ e.brk = 0 =>
              \A a \in 1..(e.node - 1) :
                  doc[a].text # <<>> => (OwnTextIn(e, a) <=> e.node - a <= 3)
C10_Witness ==
    \E e \in Entries :
        /\ e.stage = "gate" /\ e.node = NodeCount /\ e.brk = 0
        /\ doc[e.node - 3].text # <<>> /\ OwnTextIn(e, e.node - 3)
        /\ doc[1].text # <<>> /\ ~OwnTextIn(e, 1)
C10_WitnessFailedLookup ==
    \E e \in Entries :
        e.stage = "gate" /\ e.brk = e.node - 1 /\ Len(e.levels) = 3
\* C10 (as claimed): the node's own text and exactly its min(4, d) nearest ancestors.
C10_ContextExtent4 ==
    \A e \in Entries : e.stage = "gate" =>
        e.levels = Nearest(e.node, Min(4, e.node - 1), e.brk)

(***************************************************************************)
(* Specification Spec: main(), one process invocation after another        *)
(* against the same state file.                                            *)
(***************************************************************************)
MaxRuns == 3

Node(tag, text) == [tag |-> tag, text |-> text, aria |-> <<>>, title |-> <<>>]
\* the monitored page with a buy button in a Steam Deck refurbished card
PAGE_IN_STOCK ==
    << Node("[document]", <<>>),
       Node("div", F_STEAM \o <<" ">> \o F_REFURB),
       Node("a", F_BUY) >>
\* the same page served with other whitespace and letter case
PAGE_IN_STOCK_RESPACED ==
    << Node("[document]", <<"\n">>),
       Node("div", <<" ", "S","T","E","A","M"," ","d","e","c","k","\t"," ">> \o F_REFURB),
       Node("a", <<"B","U","Y"," "," ","N","o","w","\n">>) >>
\* the page after its visible text changed, still with a buy button
PAGE_RESTOCKED ==
    << Node("[document]", <<>>),
       Node("div", F_STEAM \o <<" ">> \o F_REFURB \o <<" ","6","4","G","B">>),
       Node("button", F_BUY) >>
\* the page with the button replaced by a sold-out notice
PAGE_SOLD_OUT ==
    << Node("[document]", <<>>),
       Node("div", F_STEAM \o <<" ">> \o F_REFURB),
       Node("a", F_SOLD) >>
Pages == {PAGE_IN_STOCK, PAGE_IN_STOCK_RESPACED, PAGE_RESTOCKED, PAGE_SOLD_OUT}

\* line 129: the fingerprint of the parsed page
PageHash(d) == Sha256Hex16(norm(GetText(d, 1)))
STALE_HASH == [i \in 1..HashLen |-> "0"]
StoredHashes == {PageHash(PAGE_IN_STOCK), PageHash(PAGE_RESTOCKED), STALE_HASH}

\* JSON values a state file may hold; "invalid" is text json.load rejects
Object(h) == [t |-> "object", last_hash |-> h]
JsonValues ==
    {[t |-> k] : k \in {"invalid", "array", "string", "number", "null"}}
    \cup {Object(None)} \cup {Object(Str(h)) : h \in StoredHashes}
\* the state file: absent, present and not openable, or present with content
Text(j) == [kind |-> "text", json |-> j]
Files == {[kind |-> "missing"], [kind |-> "unreadable"]} \cup {Text(j) : j \in JsonValues}

\* values of DISCORD_WEBHOOK: unset, empty, blank, a URL
Envs == {None, Str(<<>>), Str(<<" ">>), Str(<<"h","t","t","p","s">>)}
\* line 21: os.environ.get("DISCORD_WEBHOOK", "").strip()
WEBHOOK == Strip(IF env.isNone THEN <<>> ELSE env.chars)

\* load_state(), lines 98-105
load_state ==
    IF file.kind = "missing" THEN Object(None)
    ELSE IF file.kind = "unreadable" \/ file.json.t = "invalid" THEN Object(None)
    ELSE file.json

Log(level, msg) == logs' = logs \cup {[level |-> level, msg |-> msg]}
Call(what) == trace' = Append(trace, what)
NoOutcome == [fetch |-> "none", post |-> "none", save |-> "none"]

Init ==
    /\ env \in Envs
    /\ file \in Files /\ file0 = file
    /\ runs = 1 /\ pc = "start"
    /\ state = [t |-> "unset"] /\ last_hash = None
    /\ soup = <<>> /\ page_hash = <<>>
    /\ trace = <<>> /\ logs = {}
    /\ exit = "running" /\ branch = "none"
    /\ outcome = NoOutcome
    /\ prev = [branch |-> "none", soup |-> <<>>, posted |-> FALSE, save |-> "none"]
    /\ DetectIdle /\ NormIdle

\* lines 115-118
CheckWebhookIgnored ==
    /\ pc = "start"
    /\ IF WEBHOOK = <<>>
       THEN Log("error", "Missing DISCORD_WEBHOOK environment variable.")
       ELSE logs' = logs
    /\ pc' = "load"
    /\ UNCHANGED <<env, file, file0, runs, state, last_hash, soup, page_hash, trace,
                   exit, branch, outcome, prev, detectVars, normVars>>
CheckWebhook ==
    /\ pc = "start"
    /\ IF WEBHOOK = <<>>
       THEN /\ Log("error", "Missing DISCORD_WEBHOOK environment variable.")
            /\ pc' = "done" /\ exit' = "returned" /\ branch' = "config_error"
       ELSE /\ pc' = "load" /\ UNCHANGED <<logs, exit, branch>>
    /\ UNCHANGED <<env, file, file0, runs, state, last_hash, soup, page_hash, trace,
                   outcome, prev, detectVars, normVars>>

\* lines 120-121: state = load_state(); last_hash = state.get("last_hash"),
\* which raises AttributeError when the JSON value is not an object
LoadState ==
    /\ pc = "load"
    /\ Call("load_state")
    /\ state' = load_state
    /\ IF state'.t = "object"
       THEN /\ last_hash' = state'.last_hash
            /\ pc' = "fetch" /\ UNCHANGED <<exit, branch>>
       ELSE /\ last_hash' = last_hash
            /\ pc' = "done" /\ exit' = "raised" /\ branch' = "crashed"
    /\ UNCHANGED <<env, file, file0, runs, soup, page_hash, logs,
                   outcome, prev, detectVars, normVars>>

\* lines 124-126: requests.get raises on a transport error or a timeout,
\* raise_for_status on a 4xx or 5xx answer; main() catches neither
FetchOutcomes == {"ok", "transport_error", "timeout", "http_404", "http_503"}
Fetch ==
    /\ pc = "fetch"
    /\ Call("fetch")
    /\ \E o \in FetchOutcomes :
        /\ outcome' = [outcome EXCEPT !.fetch = o]
        /\ IF o = "ok"
           THEN /\ soup' \in Pages
                /\ pc' = "classify" /\ UNCHANGED <<exit, branch>>
           ELSE /\ soup' = soup
                /\ pc' = "done" /\ exit' = "raised" /\ branch' = "fetch_failed"
    /\ UNCHANGED <<env, file, file0, runs, state, last_hash, page_hash, logs,
                   prev, detectVars, normVars>>

\* lines 128-130 and 135-138
ClassifySavesDuplicate ==
    /\ pc = "classify"
    /\ IF detect_in_stock(soup)
       THEN /\ page_hash' = PageHash(soup)
            /\ IF Str(page_hash') # last_hash
               THEN /\ pc' = "post" /\ branch' = "notified"
                    /\ UNCHANGED <<logs, exit>>
               ELSE /\ Log("info", "Positive signal detected but page hash unchanged; skip duplicate alert.")
                    /\ pc' = "save" /\ exit' = exit /\ branch' = "suppressed"
       ELSE /\ Log("info", "No positive buy signal on monitored URL.")
            /\ pc' = "done" /\ exit' = "returned" /\ branch' = "negative"
            /\ page_hash' = page_hash
    /\ UNCHANGED <<env, file, file0, runs, state, last_hash, soup, trace,
                   outcome, prev, detectVars, normVars>>
Classify ==
    /\ pc = "classify"
    /\ IF detect_in_stock(soup)
       THEN /\ page_hash' = PageHash(soup)
            /\ IF Str(page_hash') # last_hash
               THEN /\ pc' = "post" /\ branch' = "notified"
                    /\ UNCHANGED <<logs, exit>>
               ELSE /\ Log("info", "Positive signal detected but page hash unchanged; skip duplicate alert.")
                    /\ pc' = "done" /\ exit' = "returned" /\ branch' = "suppressed"
       ELSE /\ Log("info", "No positive buy signal on monitored URL.")
            /\ pc' = "done" /\ exit' = "returned" /\ branch' = "negative"
            /\ page_hash' = page_hash
    /\ UNCHANGED <<env, file, file0, runs, state, last_hash, soup, trace,
                   outcome, prev, detectVars, normVars>>

\* lines 131-132 and post_discord, lines 90-96
PostOutcomes == {"delivered", "status_300_or_more", "raised"}
PostDiscordPropagates ==
    /\ pc = "post"
    /\ Call("post")
    /\ \E o \in PostOutcomes :
        /\ outcome' = [outcome EXCEPT !.post = o]
        /\ IF o = "delivered"
           THEN pc' = "save" /\ UNCHANGED <<logs, exit>>
           ELSE /\ Log("error", "Failed to post to Discord")
                /\ pc' = "done" /\ exit' = "raised"
    /\ UNCHANGED <<env, file, file0, runs, state, last_hash, soup, page_hash,
                   branch, prev, detectVars, normVars>>
PostDiscord ==
    /\ pc = "post"
    /\ Call("post")
    /\ \E o \in PostOutcomes :
        /\ outcome' = [outcome EXCEPT !.post = o]
        /\ IF o = "delivered" THEN logs' = logs
           ELSE IF o = "status_300_or_more" THEN Log("error", "Discord webhook error")
           ELSE Log("error", "Failed to post to Discord")
    /\ pc' = "save"
    /\ UNCHANGED <<env, file, file0, runs, state, last_hash, soup, page_hash,
                   exit, branch, prev, detectVars, normVars>>

\* lines 133-134 and save_state, lines 107-112: open() may fail and leave the
\* file as it is; the write may fail after open() truncated the file
SaveOutcomes == {"written", "open_failed", "write_failed"}
SaveStateKeepsHash ==
    /\ pc = "save"
    /\ Call("save_state")
    /\ state' = state
    /\ \E o \in SaveOutcomes :
        /\ outcome' = [outcome EXCEPT !.save = o]
        /\ IF o = "written" THEN file' = Text(state') /\ logs' = logs
           ELSE /\ file' = IF o = "open_failed" THEN file ELSE Text([t |-> "invalid"])
                /\ Log("warning", "Failed to write state")
    /\ pc' = "done" /\ exit' = "returned"
    /\ UNCHANGED <<env, file0, runs, last_hash, soup, page_hash,
                   branch, prev, detectVars, normVars>>
SaveState ==
    /\ pc = "save"
    /\ Call("save_state")
    /\ state' = [state EXCEPT !.last_hash = Str(page_hash)]
    /\ \E o \in SaveOutcomes :
        /\ outcome' = [outcome EXCEPT !.save = o]
        /\ IF o = "written" THEN file' = Text(state') /\ logs' = logs
           ELSE /\ file' = IF o = "open_failed" THEN file ELSE Text([t |-> "invalid"])
                /\ Log("warning", "Failed to write state")
    /\ pc' = "done" /\ exit' = "returned"
    /\ UNCHANGED <<env, file0, runs, last_hash, soup, page_hash,
                   branch, prev, detectVars, normVars>>

\* the scheduler starts the next process: a fresh main() on the same state file
NextRun ==
    /\ pc = "done" /\ runs < MaxRuns
    /\ runs' = runs + 1
    /\ env' \in Envs
    /\ prev' = [branch |-> branch, soup |-> soup,
                posted |-> outcome.post # "none", save |-> outcome.save]
    /\ file0' = file
    /\ pc' = "start" /\ state' = [t |-> "unset"] /\ last_hash' = None
    /\ soup' = <<>> /\ page_hash' = <<>> /\ trace' = <<>> /\ logs' = {}
    /\ exit' = "running" /\ branch' = "none" /\ outcome' = NoOutcome
    /\ UNCHANGED <<file, detectVars, normVars>>

Next == CheckWebhook \/ LoadState \/ Fetch \/ Classify \/ PostDiscord \/ SaveState \/ NextRun
Spec == Init /\ [][Next]_vars

(***************************************************************************)
(* Properties of main(), checked under Spec                                *)
(***************************************************************************)
Calls(what) == Cardinality({i \in DOMAIN trace : trace[i] = what})
Logged(level) == \E l \in logs : l.level = level
Positive(b) == b \in {"suppressed", "notified"}
\* this run and the one before it fetched the same page and found it in stock
SameContentTwice ==
    /\ pc = "done" /\ Positive(branch) /\ Positive(prev.branch) /\ prev.soup = soup
\* the state file holds no valid {last_hash: string} record
NotARecord(f) ==
    \/ f.kind \in {"missing", "unreadable"}
    \/ f.kind = "text" /\ f.json.t # "object"

C3_FetchFailureIsolated ==
    outcome.fetch \notin {"none", "ok"} =>
        /\ exit # "raised"
        /\ pc = "done" => exit = "returned" /\ logs # {}
        /\ Calls("post") = 0 /\ Calls("save_state") = 0 /\ file = file0

\* C4: in every run the state file is read at most once, before the fetch, and
\* written at most once, only on the NOTIFIED branch; a run with a negative
\* verdict or a suppressed duplicate leaves the file as it was and notifies nobody.
C4_StateFrame ==
    /\ Calls("load_state") <= 1 /\ Calls("save_state") <= 1 /\ Calls("post") <= 1
    /\ \A i, j \in DOMAIN trace : trace[i] = "fetch" /\ trace[j] = "load_state" => j < i
    /\ Calls("fetch") > 0 => Calls("load_state") = 1
    /\ Calls("save_state") > 0 => branch = "notified"
    /\ file # file0 => Calls("save_state") = 1 /\ branch = "notified"
    /\ branch \in {"negative", "suppressed"} =>
          file = file0 /\ Calls("post") = 0 /\ Calls("save_state") = 0
C4_Witness ==
    /\ pc = "done" /\ branch = "suppressed" /\ runs > 1
    /\ trace = <<"load_state", "fetch">> /\ file = file0
    /\ prev.branch = "notified" /\ prev.save = "written"

\* C5: a state file that is missing, unreadable or not a valid {last_hash: string}
\* record (invalid JSON, or JSON that is not an object) is first-run state: the
\* run takes last_hash for absent, logs the condition and goes on; a positive
\* verdict then leads to NOTIFIED.
C5_CorruptStateIsFirstRun ==
    NotARecord(file0) /\ Calls("load_state") > 0 =>
        /\ exit # "raised" \/ outcome.fetch \notin {"none", "ok"}
        /\ last_hash = None
        /\ pc = "done" /\ exit = "returned" => logs # {}
        /\ pc = "done" /\ Positive(branch) => branch = "notified"

\* C6: with DISCORD_WEBHOOK empty or unset main() reports the error and returns
\* before any state read, fetch, classification, notification or state write.
C6_ConfigErrorNoWork ==
    WEBHOOK = <<>> /\ pc # "idle" =>
        /\ trace = <<>> /\ file = file0
        /\ state = [t |-> "unset"] /\ soup = <<>> /\ page_hash = <<>>
        /\ pc \in {"start", "done"}
        /\ pc = "done" => exit = "returned" /\ branch = "config_error" /\ Logged("error")
C6_Witness ==
    /\ env.isNone /\ pc = "done" /\ branch = "config_error" /\ runs > 1
    /\ prev.branch = "notified" /\ trace = <<>> /\ Logged("error")

(***************************************************************************)
(* Specification SpecNorm: norm() and the fingerprint of line 129 applied  *)
(* to a text x and to a text y that differs from x only in the length of   *)
(* its whitespace runs, its leading and trailing whitespace and its        *)
(* letter case.                                                            *)
(***************************************************************************)
MaxLen == 3
MaxEdits == 2
NormAlphabet == {"a", "B", " ", "\n", CAP_SIGMA}
Texts == UNION {[1..n -> NormAlphabet] : n \in 0..MaxLen}

UpperMap == [c \in Range(LOWER) |-> UPPER[CHOOSE i \in DOMAIN LOWER : LOWER[i] = c]]
\* the same Latin letter in the other case
SwapCase(c) == IF c \in UpperChars THEN LowerMap[c]
               ELSE IF c \in DOMAIN UpperMap THEN UpperMap[c] ELSE c
\* the forms a Greek sigma takes in another case
SigmaForms(c) == IF c = CAP_SIGMA THEN {SMALL_SIGMA, FINAL_SIGMA}
                 ELSE IF c \in {SMALL_SIGMA, FINAL_SIGMA} THEN {CAP_SIGMA} ELSE {}
InsertAt(s, i, c) == SubSeq(s, 1, i - 1) \o <<c>> \o SubSeq(s, i, Len(s))
DeleteAt(s, i) == SubSeq(s, 1, i - 1) \o SubSeq(s, i + 1, Len(s))
\* position i of s, or the position before it, holds whitespace
NextToSpace(s, i) == \/ i <= Len(s) /\ IsSpace(s[i])
                     \/ i > 1 /\ IsSpace(s[i - 1])

NormInit ==
    /\ x \in {None} \cup {Str(t) : t \in Texts}
    /\ y = OrEmpty(x)
    /\ edits = 0 /\ sigma = FALSE /\ applied = FALSE
    /\ nx = <<>> /\ fx = <<>> /\ fy = <<>>
    /\ MainIdle /\ DetectIdle

Edited(t) ==
    /\ ~applied /\ edits < MaxEdits
    /\ y' = t /\ edits' = edits + 1
    /\ UNCHANGED <<x, applied, nx, fx, fy, mainVars, detectVars>>

\* a whitespace run of y grows by one whitespace character
WidenRun ==
    \E i \in 1..(Len(y) + 1), c \in {a \in NormAlphabet : IsSpace(a)} :
        NextToSpace(y, i) /\ Edited(InsertAt(y, i, c)) /\ sigma' = sigma
\* a whitespace run of y loses one character and stays a run
ShrinkRun ==
    \E i \in 1..Len(y) :
        /\ IsSpace(y[i])
        /\ \/ i > 1 /\ IsSpace(y[i - 1])
           \/ i < Len(y) /\ IsSpace(y[i + 1])
        /\ Edited(DeleteAt(y, i)) /\ sigma' = sigma
\* y gains a leading or a trailing whitespace character
Pad ==
    \E i \in {1, Len(y) + 1}, c \in {a \in NormAlphabet : IsSpace(a)} :
        Edited(InsertAt(y, i, c)) /\ sigma' = sigma
\* y loses a leading or a trailing whitespace character
Unpad ==
    \E i \in {1, Len(y)} :
        i \in DOMAIN y /\ IsSpace(y[i]) /\ Edited(DeleteAt(y, i)) /\ sigma' = sigma
\* one Latin letter of y changes case
Recase ==
    \E i \in 1..Len(y) :
        /\ SwapCase(y[i]) # y[i]
        /\ Edited([y EXCEPT ![i] = SwapCase(y[i])]) /\ sigma' = sigma
\* one Greek sigma of y changes case
RecaseSigma ==
    \E i \in 1..Len(y) : \E c \in SigmaForms(y[i]) :
        Edited([y EXCEPT ![i] = c]) /\ sigma' = TRUE

\* norm(x), and main() line 129 on x and on y
ApplyNorm ==
    /\ ~applied
    /\ applied' = TRUE
    /\ nx' = normArg(x)
    /\ fx' = Fingerprint(OrEmpty(x))
    /\ fy' = Fingerprint(y)
    /\ UNCHANGED <<x, y, edits, sigma, mainVars, detectVars>>

NormNext == WidenRun \/ ShrinkRun \/ Pad \/ Unpad \/ Recase \/ RecaseSigma \/ ApplyNorm
SpecNorm == NormInit /\ [][NormNext]_vars

====
